---- MODULE Spec2Model ----
(***************************************************************************)
(* Model of the PNG chunk codec of png-me-rs: ChunkType (chunk_type.rs)   *)
(* and Chunk (chunks.rs).                                                  *)
(*                                                                         *)
(* Bytes are naturals 0..255, byte strings are sequences of bytes.  A u32  *)
(* is a record [hi, lo] of its two 16-bit halves (value = hi*65536 + lo),  *)
(* so that checksums above 2^31 stay representable.  A Rust panic is a     *)
(* result with st = "panic"; it ends the run (panicked = TRUE).            *)
(***************************************************************************)
EXTENDS Naturals, Sequences, FiniteSets

VARIABLES
    text,        \* input of ChunkType::from_str: [set, val]
    chunk_type,  \* result of the last ChunkType construction: [st, data]
    valid,       \* result of the last is_valid() query: [set, val]
    chunk,       \* result of Chunk::new: [st, c]
    bytes,       \* the byte buffer at hand: [st, src, val]
    parsed,      \* result of Chunk::try_from(bytes.val): [st, err, c]
    reser,       \* result of as_bytes() on the parsed chunk: [st, val]
    panicked     \* TRUE once some call has panicked

vars == <<text, chunk_type, valid, chunk, bytes, parsed, reser, panicked>>

\* ------------------------------------------------------------------ bounds
MaxLen == 2
MaxStrLen == 5

\* Input alphabets.
TagBytes == {49, 83, 116, 128, 194}
WideBytes == {49, 64, 65, 90, 91, 96, 97, 122, 123, 128, 255}
StrBytes == {49, 83, 116, 194, 128}
PayloadBytes == {0, 255}

RECURSIVE SeqsOfLen(_, _)
SeqsOfLen(S, n) ==
    IF n = 0 THEN {<<>>}
    ELSE {Append(s, b) : s \in SeqsOfLen(S, n - 1), b \in S}

SeqsUpTo(S, n) == UNION {SeqsOfLen(S, k) : k \in 0..n}

\* ------------------------------------------------------------ u8 helpers
is_ascii_uppercase(b) == b >= 65 /\ b <= 90
is_ascii_lowercase(b) == b >= 97 /\ b <= 122
is_ascii_alphabetic(b) == is_ascii_uppercase(b) \/ is_ascii_lowercase(b)
is_ascii(data) == \A i \in 1..Len(data) : data[i] <= 127

RECURSIVE Xor(_, _)
Xor(a, b) ==
    IF a = 0 THEN b
    ELSE IF b = 0 THEN a
    ELSE (((a % 2) + (b % 2)) % 2) + 2 * Xor(a \div 2, b \div 2)

\* -------------------------------------------------------------------- u32
U32Of(n) == [hi |-> (n \div 65536) % 65536, lo |-> n % 65536]

to_be_bytes(u) == <<u.hi \div 256, u.hi % 256, u.lo \div 256, u.lo % 256>>

from_be_bytes(b) == [hi |-> b[1] * 256 + b[2], lo |-> b[3] * 256 + b[4]]

U32Dec(u) ==
    IF u.lo > 0 THEN [hi |-> u.hi, lo |-> u.lo - 1]
    ELSE IF u.hi > 0 THEN [hi |-> u.hi - 1, lo |-> 65535]
    ELSE [hi |-> 65535, lo |-> 65535]

U32Inc(u) ==
    IF u.lo < 65535 THEN [hi |-> u.hi, lo |-> u.lo + 1]
    ELSE IF u.hi < 65535 THEN [hi |-> u.hi + 1, lo |-> 0]
    ELSE [hi |-> 0, lo |-> 0]

\* ------------------------------------------------- CRC-32/ISO-HDLC (crc)
\* Reflected polynomial 0xEDB88320, init 0xFFFFFFFF, xorout 0xFFFFFFFF.
PolyHi == 60856
PolyLo == 33568

CrcShift(u) ==
    LET h == u.hi \div 2
        l == (u.lo \div 2) + (u.hi % 2) * 32768
    IN  IF u.lo % 2 = 1
        THEN [hi |-> Xor(h, PolyHi), lo |-> Xor(l, PolyLo)]
        ELSE [hi |-> h, lo |-> l]

RECURSIVE CrcBits(_, _)
CrcBits(u, k) == IF k = 0 THEN u ELSE CrcBits(CrcShift(u), k - 1)

CrcTable == [i \in 0..255 |-> CrcBits([hi |-> 0, lo |-> i], 8)]

CrcUpdate(u, b) ==
    LET t == CrcTable[Xor(u.lo % 256, b)]
    IN  [hi |-> Xor(u.hi \div 256, t.hi),
         lo |-> Xor((u.lo \div 256) + (u.hi % 256) * 256, t.lo)]

RECURSIVE CrcFold(_, _, _)
CrcFold(u, data, i) ==
    IF i > Len(data) THEN u ELSE CrcFold(CrcUpdate(u, data[i]), data, i + 1)

checksum(data) ==
    LET u == CrcFold([hi |-> 65535, lo |-> 65535], data, 1)
    IN  [hi |-> 65535 - u.hi, lo |-> 65535 - u.lo]

\* ------------------------------------------------------ String::from_utf8
IsCont(b) == b >= 128 /\ b <= 191

RECURSIVE Utf8From(_, _)
Utf8From(s, i) ==
    IF i > Len(s) THEN TRUE
    ELSE LET b == s[i]
             n == Len(s)
         IN  IF b <= 127 THEN Utf8From(s, i + 1)
             ELSE IF b >= 194 /\ b <= 223 THEN
                 /\ i + 1 <= n
                 /\ IsCont(s[i + 1])
                 /\ Utf8From(s, i + 2)
             ELSE IF b >= 224 /\ b <= 239 THEN
                 /\ i + 2 <= n
                 /\ IF b = 224 THEN s[i + 1] >= 160 /\ s[i + 1] <= 191
                    ELSE IF b = 237 THEN s[i + 1] >= 128 /\ s[i + 1] <= 159
                    ELSE IsCont(s[i + 1])
                 /\ IsCont(s[i + 2])
                 /\ Utf8From(s, i + 3)
             ELSE IF b >= 240 /\ b <= 244 THEN
                 /\ i + 3 <= n
                 /\ IF b = 240 THEN s[i + 1] >= 144 /\ s[i + 1] <= 191
                    ELSE IF b = 244 THEN s[i + 1] >= 128 /\ s[i + 1] <= 143
                    ELSE IsCont(s[i + 1])
                 /\ IsCont(s[i + 2])
                 /\ IsCont(s[i + 3])
                 /\ Utf8From(s, i + 4)
             ELSE FALSE

from_utf8(s) == Utf8From(s, 1)

\* ------------------------------------------------------------- ChunkType
\* A ChunkType value is its field data: a sequence of 4 bytes.
is_critical(data) == is_ascii_uppercase(data[1])
is_public(data) == is_ascii_uppercase(data[2])
is_reserved_bit_valid(data) == is_ascii_uppercase(data[3])
is_safe_to_copy(data) == is_ascii_lowercase(data[4])

\* is_valid with the reserved-bit test left out.
is_valid_no_reserved(data) ==
    LET v0 == is_ascii(data)
    IN  IF \E i \in 1..4 : ~is_ascii_alphabetic(data[i]) THEN FALSE ELSE v0

is_valid(data) ==
    LET v0 == is_ascii(data)
        v1 == IF \E i \in 1..4 : ~is_ascii_alphabetic(data[i]) THEN FALSE ELSE v0
    IN  v1 /\ is_reserved_bit_valid(data)

\* impl TryFrom<[u8; 4]> for ChunkType: always Ok.
ChunkType_try_from(b) == [st |-> "ok", data |-> b]

\* impl FromStr for ChunkType: the loop over index 0..4; string_bytes[index]
\* panics when index is past the end of the string.
RECURSIVE from_str_loop(_, _)
from_str_loop(s, index) ==
    IF index = 4 THEN [st |-> "ok", data |-> SubSeq(s, 1, 4)]
    ELSE IF index >= Len(s) THEN [st |-> "panic", data |-> <<>>]
    ELSE IF ~is_ascii_alphabetic(s[index + 1]) THEN [st |-> "err", data |-> <<>>]
    ELSE from_str_loop(s, index + 1)

ChunkType_from_str(s) == from_str_loop(s, 0)

\* impl Display for ChunkType, called through to_string(): fmt returns
\* Err(fmt::Error) when the bytes are not UTF-8, and to_string() panics on it.
ChunkType_to_string(data) ==
    IF from_utf8(data) THEN [st |-> "ok", val |-> data]
    ELSE [st |-> "panic", val |-> <<>>]

\* ----------------------------------------------------------------- Chunk
NoChunk == [data |-> <<>>, length |-> U32Of(0), chunk_type |-> <<>>, crc |-> U32Of(0)]

\* Chunk::new with the checksum taken over the length field as well.
Chunk_new_crc_over_length(ct, data) ==
    LET length == U32Of(Len(data))
        s == ChunkType_to_string(ct)
    IN  IF s.st = "panic" THEN [st |-> "panic", c |-> NoChunk]
        ELSE [st |-> "ok",
              c |-> [data |-> data, length |-> length, chunk_type |-> ct,
                     crc |-> checksum(to_be_bytes(length) \o s.val \o data)]]

Chunk_new(ct, data) ==
    LET length == U32Of(Len(data))
        s == ChunkType_to_string(ct)
    IN  IF s.st = "panic" THEN [st |-> "panic", c |-> NoChunk]
        ELSE [st |-> "ok",
              c |-> [data |-> data, length |-> length, chunk_type |-> ct,
                     crc |-> checksum(s.val \o data)]]

Chunk_length(c) == U32Of(Len(c.data))

Chunk_as_bytes(c) ==
    LET s == ChunkType_to_string(c.chunk_type)
    IN  IF s.st = "panic" THEN [st |-> "panic", val |-> <<>>]
        ELSE [st |-> "ok",
              val |-> to_be_bytes(c.length) \o s.val \o c.data \o to_be_bytes(c.crc)]

\* Chunk::try_from with the checksum comparison left out.
Chunk_try_from_no_crc_check(b) ==
    IF Len(b) < 12 THEN [st |-> "panic", err |-> "", c |-> NoChunk]
    ELSE LET n == Len(b) - 4
             length == from_be_bytes(SubSeq(b, 1, 4))
         IN  IF length # U32Of(n - 8)
             THEN [st |-> "err", err |-> "ChunkTryFromLengthError", c |-> NoChunk]
             ELSE [st |-> "ok", err |-> "",
                   c |-> [data |-> SubSeq(b, 9, n), length |-> length,
                          chunk_type |-> SubSeq(b, 5, 8),
                          crc |-> from_be_bytes(SubSeq(b, n + 1, Len(b)))]]

\* Chunk::try_from with the checksum comparison made before the length one.
Chunk_try_from_crc_first(b) ==
    IF Len(b) < 12 THEN [st |-> "panic", err |-> "", c |-> NoChunk]
    ELSE LET n == Len(b) - 4
             length == from_be_bytes(SubSeq(b, 1, 4))
             crc == from_be_bytes(SubSeq(b, n + 1, Len(b)))
         IN  IF crc # checksum(SubSeq(b, 5, n))
             THEN [st |-> "err", err |-> "ChunkTryFromCrcError", c |-> NoChunk]
             ELSE IF length # U32Of(n - 8)
             THEN [st |-> "err", err |-> "ChunkTryFromLengthError", c |-> NoChunk]
             ELSE [st |-> "ok", err |-> "",
                   c |-> [data |-> SubSeq(b, 9, n), length |-> length,
                          chunk_type |-> SubSeq(b, 5, 8), crc |-> crc]]

\* impl TryFrom<&[u8]> for Chunk.  bytes.len()-4 overflows below 4 bytes
\* (a panic in a debug build; a release build wraps and the slice on the
\* next line panics), and &bytes[8..len-4] panics when len-4 < 8.
Chunk_try_from(b) ==
    IF Len(b) < 4 THEN [st |-> "panic", err |-> "", c |-> NoChunk]
    ELSE LET bytes_length_without_crc == Len(b) - 4
         IN  IF bytes_length_without_crc < 8
             THEN [st |-> "panic", err |-> "", c |-> NoChunk]
             ELSE LET message_bytes == SubSeq(b, 9, bytes_length_without_crc)
                      ct == ChunkType_try_from(SubSeq(b, 5, 8))
                      length == from_be_bytes(SubSeq(b, 1, 4))
                      crc == from_be_bytes(SubSeq(b, bytes_length_without_crc + 1, Len(b)))
                  IN  IF length # U32Of(Len(message_bytes))
                      THEN [st |-> "err", err |-> "ChunkTryFromLengthError", c |-> NoChunk]
                      ELSE IF crc # checksum(SubSeq(b, 5, bytes_length_without_crc))
                      THEN [st |-> "err", err |-> "ChunkTryFromCrcError", c |-> NoChunk]
                      ELSE [st |-> "ok", err |-> "",
                            c |-> [data |-> message_bytes, length |-> length,
                                   chunk_type |-> ct.data, crc |-> crc]]

\* ------------------------------------------------------------- the state
Payloads == SeqsUpTo(PayloadBytes, MaxLen)

NoType == [st |-> "none", data |-> <<>>]
NoText == [set |-> FALSE, val |-> <<>>]
NoValid == [set |-> FALSE, val |-> FALSE]
NoNew == [st |-> "none", c |-> NoChunk]
NoBytes == [st |-> "none", src |-> "", val |-> <<>>]
NoParsed == [st |-> "none", err |-> "", c |-> NoChunk]
NoReser == [st |-> "none", val |-> <<>>]

Init ==
    /\ text = NoText
    /\ chunk_type = NoType
    /\ valid = NoValid
    /\ chunk = NoNew
    /\ bytes = NoBytes
    /\ parsed = NoParsed
    /\ reser = NoReser
    /\ panicked = FALSE

\* ChunkType::try_from([u8; 4]) on four raw bytes.
TypeTryFrom(alphabet) ==
    /\ ~panicked
    /\ chunk_type.st = "none"
    /\ \E b \in SeqsOfLen(alphabet, 4) : chunk_type' = ChunkType_try_from(b)
    /\ text' = NoText
    /\ valid' = NoValid
    /\ chunk' = NoNew
    /\ bytes' = NoBytes
    /\ parsed' = NoParsed
    /\ reser' = NoReser
    /\ UNCHANGED panicked

\* ChunkType::from_str on a text (a &str: always valid UTF-8).
TypeFromStr ==
    /\ ~panicked
    /\ chunk_type.st = "none"
    /\ \E s \in SeqsUpTo(StrBytes, MaxStrLen) :
          /\ from_utf8(s)
          /\ text' = [set |-> TRUE, val |-> s]
          /\ chunk_type' = ChunkType_from_str(s)
          /\ panicked' = (ChunkType_from_str(s).st = "panic")
    /\ valid' = NoValid
    /\ chunk' = NoNew
    /\ bytes' = NoBytes
    /\ parsed' = NoParsed
    /\ reser' = NoReser

\* chunk_type.is_valid()
IsValid ==
    /\ ~panicked
    /\ chunk_type.st = "ok"
    /\ ~valid.set
    /\ valid' = [set |-> TRUE, val |-> is_valid(chunk_type.data)]
    /\ UNCHANGED <<text, chunk_type, chunk, bytes, parsed, reser, panicked>>

\* Chunk::new(chunk_type, data)
ChunkNew ==
    /\ ~panicked
    /\ chunk_type.st = "ok"
    /\ chunk.st = "none"
    /\ bytes.st = "none"
    /\ \E data \in Payloads :
          /\ chunk' = Chunk_new(chunk_type.data, data)
          /\ panicked' = (Chunk_new(chunk_type.data, data).st = "panic")
    /\ UNCHANGED <<text, chunk_type, valid, bytes, parsed, reser>>

\* chunk.as_bytes() on the chunk Chunk::new returned
AsBytes ==
    /\ ~panicked
    /\ chunk.st = "ok"
    /\ bytes.st = "none"
    /\ bytes' = [st |-> Chunk_as_bytes(chunk.c).st, src |-> "as_bytes",
                 val |-> Chunk_as_bytes(chunk.c).val]
    /\ panicked' = (Chunk_as_bytes(chunk.c).st = "panic")
    /\ UNCHANGED <<text, chunk_type, valid, chunk, parsed, reser>>

\* A buffer assembled by hand the way the tests do (chunks.rs, testing_chunk
\* and test_invalid_chunk_from_bytes): a declared length, the type bytes, the
\* message and a checksum, the checksum being the one main.rs computes over
\* type ++ message (good = TRUE) or that value minus one.
BuildRaw ==
    /\ ~panicked
    /\ chunk_type.st = "ok"
    /\ chunk.st = "none"
    /\ bytes.st = "none"
    /\ \E declared \in 0..(MaxLen + 1), data \in Payloads, good \in BOOLEAN :
          LET crc == checksum(chunk_type.data \o data)
              field == IF good THEN crc ELSE U32Dec(crc)
          IN  bytes' = [st |-> "ok",
                        src |-> IF good /\ declared = Len(data)
                                THEN "raw_good" ELSE "raw",
                        val |-> to_be_bytes(U32Of(declared)) \o chunk_type.data
                                \o data \o to_be_bytes(field)]
    /\ UNCHANGED <<text, chunk_type, valid, chunk, parsed, reser, panicked>>

\* The ways the trailing checksum field of a buffer is changed.
TamperKinds == {"dec", "inc", "flip1", "flip2", "flip3", "flip4"}

TamperedCrc(field, kind) ==
    IF kind = "dec" THEN to_be_bytes(U32Dec(from_be_bytes(field)))
    ELSE IF kind = "inc" THEN to_be_bytes(U32Inc(from_be_bytes(field)))
    ELSE LET i == IF kind = "flip1" THEN 1 ELSE IF kind = "flip2" THEN 2
                  ELSE IF kind = "flip3" THEN 3 ELSE 4
         IN  [field EXCEPT ![i] = 255 - field[i]]

\* Only the trailing 4 bytes of a valid serialized chunk are changed.
TamperCrc ==
    /\ ~panicked
    /\ bytes.st = "ok"
    /\ bytes.src \in {"as_bytes", "raw_good"}
    /\ parsed.st = "none"
    /\ \E kind \in TamperKinds :
          LET n == Len(bytes.val)
          IN  bytes' = [bytes EXCEPT !.src = "tampered_crc",
                           !.val = SubSeq(bytes.val, 1, n - 4)
                                   \o TamperedCrc(SubSeq(bytes.val, n - 3, n), kind)]
    /\ UNCHANGED <<text, chunk_type, valid, chunk, parsed, reser, panicked>>

\* The caller hands over only the first n bytes of a serialized chunk.
Truncate ==
    /\ ~panicked
    /\ bytes.st = "ok"
    /\ bytes.src = "as_bytes"
    /\ parsed.st = "none"
    /\ \E n \in 0..(Len(bytes.val) - 1) :
          bytes' = [bytes EXCEPT !.src = "truncated", !.val = SubSeq(bytes.val, 1, n)]
    /\ UNCHANGED <<text, chunk_type, valid, chunk, parsed, reser, panicked>>

\* Chunk::try_from(bytes)
ChunkTryFrom ==
    /\ ~panicked
    /\ bytes.st = "ok"
    /\ parsed.st = "none"
    /\ parsed' = Chunk_try_from(bytes.val)
    /\ panicked' = (Chunk_try_from(bytes.val).st = "panic")
    /\ UNCHANGED <<text, chunk_type, valid, chunk, bytes, reser>>

\* as_bytes() on the chunk the parser returned
Reserialize ==
    /\ ~panicked
    /\ parsed.st = "ok"
    /\ reser.st = "none"
    /\ reser' = Chunk_as_bytes(parsed.c)
    /\ panicked' = (Chunk_as_bytes(parsed.c).st = "panic")
    /\ UNCHANGED <<text, chunk_type, valid, chunk, bytes, parsed>>

Next ==
    \/ TypeTryFrom(TagBytes)
    \/ ChunkNew
    \/ AsBytes
    \/ BuildRaw
    \/ TamperCrc
    \/ Truncate
    \/ ChunkTryFrom
    \/ Reserialize

Spec == Init /\ [][Next]_vars

\* The type-tag operations alone, over a wider alphabet.
NextTag ==
    \/ TypeTryFrom(WideBytes)
    \/ TypeFromStr
    \/ IsValid

SpecTag == Init /\ [][NextTag]_vars

\* ---------------------------------------------------------------- claims
Letters == (65..90) \cup (97..122)
AllAlpha(b) == \A i \in 1..4 : b[i] \in Letters

DeclaredLength(b) == from_be_bytes(SubSeq(b, 1, 4))
ChecksumField(b) == from_be_bytes(SubSeq(b, Len(b) - 3, Len(b)))

WellFormed(c) ==
    /\ c.crc = checksum(c.chunk_type \o c.data)
    /\ Chunk_length(c) = U32Of(Len(c.data))
    /\ c.length = U32Of(Len(c.data))

\* C1: round trip. Chunk::new succeeds for every type tag, and parsing the
\* bytes as_bytes() gives for the new chunk succeeds with the same length,
\* type, data and crc.
C1_RoundTrip ==
    /\ chunk.st # "panic"
    /\ (bytes.src = "as_bytes" /\ parsed.st # "none") =>
          /\ parsed.st = "ok"
          /\ Chunk_length(parsed.c) = Chunk_length(chunk.c)
          /\ parsed.c.chunk_type = chunk.c.chunk_type
          /\ parsed.c.data = chunk.c.data
          /\ parsed.c.crc = chunk.c.crc

\* C2: truncation detection. Parsing a buffer of fewer than 12 bytes returns
\* the insufficient-data error and never panics.
C2_Truncation ==
    (parsed.st # "none" /\ Len(bytes.val) < 12) =>
        (parsed.st = "err" /\ parsed.err = "InsufficientData")

\* C3: a buffer of at least 12 bytes whose type bytes are not all ASCII
\* alphabetic is rejected with InvalidTypeBytes, and no parsed chunk carries
\* a type tag with a non-alphabetic byte.
C3_InvalidTypeBytes ==
    /\ (parsed.st # "none" /\ Len(bytes.val) >= 12
            /\ ~AllAlpha(SubSeq(bytes.val, 5, 8))) =>
          (parsed.st = "err" /\ parsed.err = "InvalidTypeBytes")
    /\ parsed.st = "ok" => AllAlpha(parsed.c.chunk_type)

\* C4: Chunk::new is infallible for every type tag, valid or not: it returns
\* a chunk wrapping that tag, and as_bytes() on that chunk returns too.
C4_NewInfallible ==
    /\ chunk.st # "none" =>
          (chunk.st = "ok" /\ chunk.c.chunk_type = chunk_type.data)
    /\ bytes.src = "as_bytes" => bytes.st = "ok"

\* C5: tampering detection. A valid serialized chunk whose trailing checksum
\* field alone was changed fails to parse with the checksum error, not the
\* length error.
C5_Tampering ==
    (bytes.src = "tampered_crc" /\ parsed.st # "none") =>
        (parsed.st = "err" /\ parsed.err = "ChunkTryFromCrcError")

C5_Witness ==
    /\ bytes.src = "tampered_crc"
    /\ DeclaredLength(bytes.val) = U32Of(Len(bytes.val) - 12)
    /\ ChecksumField(bytes.val)
          = U32Dec(checksum(SubSeq(bytes.val, 5, Len(bytes.val) - 4)))
    /\ parsed.st = "err"
    /\ parsed.err = "ChunkTryFromCrcError"

\* C6: from_str returns Ok with the first 4 bytes when the text has at least
\* 4 bytes and the first 4 are ASCII alphabetic, and returns an error for
\* every other text (empty and short ones included) without panicking.
C6_FromStr ==
    text.set =>
        IF Len(text.val) >= 4 /\ AllAlpha(SubSeq(text.val, 1, 4))
        THEN chunk_type.st = "ok" /\ chunk_type.data = SubSeq(text.val, 1, 4)
        ELSE chunk_type.st = "err"

\* C7: every chunk returned by Chunk::new or by a successful parse has its
\* crc equal to CRC-32 over the type bytes followed by the data (not the
\* length field), and length() and the stored length equal to the data size.
C7_WellFormed ==
    /\ chunk.st = "ok" => WellFormed(chunk.c)
    /\ parsed.st = "ok" => WellFormed(parsed.c)

C7_Witness ==
    /\ chunk.st = "ok"
    /\ Len(chunk.c.data) = MaxLen
    /\ bytes.src = "as_bytes"
    /\ parsed.st = "ok"
    /\ parsed.c.crc = checksum(parsed.c.chunk_type \o parsed.c.data)

\* C8: is_valid() is true exactly when all 4 bytes are ASCII alphabetic and
\* byte[2] is an uppercase letter.
C8_IsValid ==
    valid.set =>
        (valid.val <=> (AllAlpha(chunk_type.data) /\ chunk_type.data[3] \in 65..90))

C8_Witness ==
    /\ valid.set
    /\ ~valid.val
    /\ chunk_type.data[3] \in 65..90
    /\ chunk_type.data[1] \in 65..90
    /\ chunk_type.data[2] \in 97..122
    /\ chunk_type.data[4] \notin Letters

\* C9: check ordering. A buffer of at least 12 bytes whose declared length
\* differs from its payload size fails with the length error whatever its
\* checksum field holds; the checksum error is returned only when the length
\* check has passed.
C9_CheckOrder ==
    (parsed.st # "none" /\ Len(bytes.val) >= 12) =>
        /\ DeclaredLength(bytes.val) # U32Of(Len(bytes.val) - 12) =>
              (parsed.st = "err" /\ parsed.err = "ChunkTryFromLengthError")
        /\ parsed.err = "ChunkTryFromCrcError" =>
              DeclaredLength(bytes.val) = U32Of(Len(bytes.val) - 12)

C9_Witness ==
    /\ Len(bytes.val) >= 12
    /\ DeclaredLength(bytes.val) # U32Of(Len(bytes.val) - 12)
    /\ ChecksumField(bytes.val) # checksum(SubSeq(bytes.val, 5, Len(bytes.val) - 4))
    /\ parsed.st = "err"
    /\ parsed.err = "ChunkTryFromLengthError"

\* C10: parse then serialize is the identity. as_bytes() on a chunk the
\* parser returned completes and gives back the parsed buffer.
C10_ParseSerialize ==
    reser.st # "none" => (reser.st = "ok" /\ reser.val = bytes.val)

====
